---- MODULE Spec2Model ----
(***************************************************************************)
(* Job Application Tracker: the JobProvider (Firestore subscription and    *)
(* the add / update / delete gateway) and the Dashboard's derived-metrics  *)
(* computation (the useMemo block), as one state machine.                  *)
(***************************************************************************)
EXTENDS Integers, Sequences, FiniteSets, TLC

VARIABLES
    store,      \* the Firestore 'jobs' collection: document key -> document data
    queue,      \* snapshots fired by the listener and not yet handed to the callback
    sub,        \* the onSnapshot listener: "active", "errored" or "closed"
    jobs,       \* JobProvider state: jobs
    loading,    \* JobProvider state: loading
    error,      \* JobProvider state: error
    lastSnap,   \* the snapshot last mapped into jobs by the success callback
    metrics,    \* what the Dashboard's useMemo returned at the last render
    tz,         \* the browser's offset from UTC, in hours
    now,        \* the clock read by new Date().toISOString()
    mounted,    \* the JobProvider (and the components under it) is mounted
    formError,  \* what the JobForm shows: its error Alert, the browser's required-field message
    settled,    \* how the promise of the last gateway call settled
    form,       \* JobForm state: open, company, role, dateApplied, status, loading
    inflight    \* the addJob calls of the form whose promise has not settled

vars == <<store, queue, sub, jobs, loading, error, lastSnap, metrics, tz, now,
          mounted, formError, settled, form, inflight>>

-----------------------------------------------------------------------------
(* Bounds *)

MaxJobs == 2        \* longest enumerated input list of the aggregator
MaxBulk == 40       \* longest two-status input list of the aggregator
MaxDocs == 2        \* document keys the store may hand out
MaxOps == 2         \* writes (add, update, delete) in one run
MaxPerm == 3        \* longest input list of the aggregator that is rearranged

-----------------------------------------------------------------------------
(* types/job *)

JobStatus == {"Applied", "Interview", "Offer", "Accepted", "Rejected"}

\* An absent optional field (undefined).
Undefined == "undefined"

\* A dateApplied value.  kind "undefined": the field is absent; "empty": the
\* string "";  "iso": the string "YYYY-MM-DD" written from y, m, d;
\* "text": a non-empty string that is no date ("not-a-date").
DateUndefined == [kind |-> "undefined", y |-> 0, m |-> 0, d |-> 0]
DateEmpty == [kind |-> "empty", y |-> 0, m |-> 0, d |-> 0]
DateText == [kind |-> "text", y |-> 0, m |-> 0, d |-> 0]
IsoDate(y, m, d) == [kind |-> "iso", y |-> y, m |-> m, d |-> d]

Job(id, company, role, dateApplied, status, notes, updatedAt) ==
    [id |-> id, company |-> company, role |-> role, dateApplied |-> dateApplied,
     status |-> status, notes |-> notes, updatedAt |-> updatedAt]

-----------------------------------------------------------------------------
(* new Date(string) and date-fns format(date, 'MMM yyyy') *)

MonthNames == <<"Jan", "Feb", "Mar", "Apr", "May", "Jun",
                "Jul", "Aug", "Sep", "Oct", "Nov", "Dec">>

IsLeap(y) == (y % 4 = 0 /\ y % 100 # 0) \/ y % 400 = 0

DaysInMonth(y, m) ==
    IF m = 2 THEN (IF IsLeap(y) THEN 29 ELSE 28)
    ELSE IF m \in {4, 6, 9, 11} THEN 30 ELSE 31

\* if (job.dateApplied): undefined and "" are falsy, any other string truthy.
Truthy(s) == s.kind \in {"iso", "text"}

\* new Date(s): a date-only ISO string is midnight UTC of that day; a string
\* that is no date gives an Invalid Date (time value NaN).
NewDate(s) ==
    IF s.kind = "iso" /\ s.m \in 1..12 /\ s.d \in 1..DaysInMonth(s.y, s.m)
    THEN [valid |-> TRUE, y |-> s.y, m |-> s.m, d |-> s.d]
    ELSE [valid |-> FALSE, y |-> 0, m |-> 0, d |-> 0]

\* The local calendar day of midnight UTC: the same day at and east of UTC,
\* the day before west of it.
LocalDay(date, offset) ==
    IF offset >= 0 THEN date
    ELSE IF date.d > 1 THEN [date EXCEPT !.d = date.d - 1]
    ELSE IF date.m > 1
         THEN [date EXCEPT !.m = date.m - 1, !.d = DaysInMonth(date.y, date.m - 1)]
         ELSE [date EXCEPT !.y = date.y - 1, !.m = 12, !.d = 31]

\* format(date, 'MMM yyyy'), for a valid date: the label "Mon YYYY" of the
\* local day.  (On an Invalid Date format throws RangeError, see MonthlyCounts.)
FormatMonth(date, offset) ==
    LET l == LocalDay(date, offset) IN [mon |-> MonthNames[l.m], year |-> l.y]

-----------------------------------------------------------------------------
(* IEEE-754 double arithmetic, as far as Math.round((a / b) * 100) needs it. *)
(* A double is a 53-bit significand (most significant bit first) and the   *)
(* exponent of its last bit.                                               *)

Precision == 53

RECURSIVE ToBits(_)
\* The binary digits of a natural number, most significant first; <<>> for 0.
ToBits(n) == IF n = 0 THEN <<>> ELSE Append(ToBits(n \div 2), n % 2)

RECURSIVE FromBits(_)
FromBits(bits) ==
    IF bits = <<>> THEN 0
    ELSE 2 * FromBits(SubSeq(bits, 1, Len(bits) - 1)) + bits[Len(bits)]

\* bits + 1: the lowest 0 becomes 1 and the 1s below it become 0.
Incr(bits) ==
    LET zeros == {i \in 1..Len(bits) : bits[i] = 0}
    IN IF zeros = {} THEN <<1>> \o [i \in 1..Len(bits) |-> 0]
       ELSE LET j == CHOOSE i \in zeros : \A k \in zeros : k <= i
            IN [i \in 1..Len(bits) |-> IF i < j THEN bits[i] ELSE IF i = j THEN 1 ELSE 0]

Zeros(k) == [i \in 1..k |-> 0]

\* Round an exact value bits * 2^exp to Precision bits, to nearest, ties to
\* even.  sticky: the exact value has further non-zero bits below bits.
RoundToDouble(bits, exp, sticky) ==
    IF Len(bits) <= Precision THEN [sig |-> bits, exp |-> exp]
    ELSE LET drop == Len(bits) - Precision
             kept == SubSeq(bits, 1, Precision)
             rest == SubSeq(bits, Precision + 1, Len(bits))
             half == rest[1] = 1
             below == sticky \/ \E i \in 2..drop : rest[i] = 1
             up == half /\ (below \/ kept[Precision] = 1)
             r == IF up THEN Incr(kept) ELSE kept
         IN IF Len(r) > Precision
            THEN [sig |-> SubSeq(r, 1, Precision), exp |-> exp + drop + 1]
            ELSE [sig |-> r, exp |-> exp + drop]

RECURSIVE DivSteps(_, _, _, _)
\* Long division: extend the quotient bits by one binary place at a time
\* until Precision + 1 significant bits are known.
DivSteps(bits, rem, b, exp) ==
    IF Len(bits) > Precision THEN [bits |-> bits, rem |-> rem, exp |-> exp]
    ELSE LET q == (2 * rem) \div b
             next == IF bits = <<>> /\ q = 0 THEN <<>> ELSE Append(bits, q)
         IN DivSteps(next, (2 * rem) % b, b, exp - 1)

\* a / b for integers a > 0, b > 0: the correctly rounded quotient.
DoubleDiv(a, b) ==
    LET s == DivSteps(ToBits(a \div b), a % b, b, 0)
    IN RoundToDouble(s.bits, s.exp, s.rem # 0)

\* The exact product x.sig * 100, computed limb by limb (limbs of LimbBits
\* bits, carries passed upwards), as bits.
LimbBits == 18
LimbBase == 262144

Pad(bits, k) == [i \in 1..(k - Len(bits)) |-> 0] \o bits

Times100(sig) ==
    LET n == Len(sig)
        lo == FromBits(SubSeq(sig, n - LimbBits + 1, n))
        mid == FromBits(SubSeq(sig, n - 2 * LimbBits + 1, n - LimbBits))
        hi == FromBits(SubSeq(sig, 1, n - 2 * LimbBits))
        plo == lo * 100
        pmid == mid * 100 + plo \div LimbBase
        phi == hi * 100 + pmid \div LimbBase
    IN ToBits(phi) \o Pad(ToBits(pmid % LimbBase), LimbBits)
                   \o Pad(ToBits(plo % LimbBase), LimbBits)

\* x * 100 for a double x with a full significand: the correctly rounded product.
DoubleTimes100(x) == RoundToDouble(Times100(x.sig), x.exp, FALSE)

\* Math.round(x) for x > 0: floor(x + 0.5), the nearest integer, a tie going up.
MathRound(x) ==
    LET intLen == Len(x.sig) + x.exp
    IN IF x.exp >= 0 THEN FromBits(x.sig \o Zeros(x.exp))
       ELSE IF intLen < 0 THEN 0
       ELSE FromBits(SubSeq(x.sig, 1, intLen)) + x.sig[intLen + 1]

\* Math.round((a / b) * 100) for integers a >= 0, b > 0.
RoundPercent(a, b) ==
    IF a = 0 THEN 0 ELSE MathRound(DoubleTimes100(DoubleDiv(a, b)))

-----------------------------------------------------------------------------
(* components/Dashboard: the useMemo block *)

STATUS_ORDER == <<"Applied", "Interview", "Offer", "Accepted", "Rejected">>

\* The palette mode of the theme useTheme() gives the Dashboard: the App's
\* theme, which sets no mode (the dark-mode switch builds another theme).
ThemeMode == "light"

\* getStatusColor(status, theme)
GetStatusColor(status, mode) ==
    CASE status = "Applied" -> (IF mode = "dark" THEN "#5d8ffc" ELSE "#4e73df")
      [] status = "Interview" -> (IF mode = "dark" THEN "#ffd54f" ELSE "#f6c23e")
      [] status = "Offer" -> (IF mode = "dark" THEN "#4dd0e1" ELSE "#36b9cc")
      [] status = "Accepted" -> (IF mode = "dark" THEN "#69f0ae" ELSE "#1cc88a")
      [] status = "Rejected" -> (IF mode = "dark" THEN "#ff6b6b" ELSE "#e74a3b")
      [] OTHER -> "#9e9e9e"

\* Mutant of Tally: the count is set to 1 instead of incremented.
Tally_Overwrite(acc, status) ==
    [k \in DOMAIN acc \cup {status} |-> IF k = status THEN 1 ELSE acc[k]]

\* acc[job.status] = (acc[job.status] || 0) + 1
Tally(acc, status) ==
    [k \in DOMAIN acc \cup {status} |->
        IF k = status THEN (IF k \in DOMAIN acc THEN acc[k] ELSE 0) + 1 ELSE acc[k]]

RECURSIVE StatusReduce(_, _, _)
\* jobs.reduce((acc, job) => { ...; return acc }, {}) from record i on.
\* (The test on DOMAIN acc has TLC evaluate the accumulator at every step
\* instead of building one deeply nested expression.)
StatusReduce(js, i, acc) ==
    IF i > Len(js) \/ DOMAIN acc = {"none"} THEN acc
    ELSE StatusReduce(js, i + 1, Tally(acc, js[i].status))

\* The statusCounts object: a count for every status that occurs.
StatusCounts(js) == StatusReduce(js, 1, <<>>)

\* STATUS_ORDER.map(status => ({name: status, value: statusCounts[status] || 0,
\* color, lightColor: `${color}33`})); lightColor is the colour and its suffix.
StatusData(js) ==
    LET statusCounts == StatusCounts(js)
    IN [i \in 1..Len(STATUS_ORDER) |->
          [name |-> STATUS_ORDER[i],
           value |-> IF STATUS_ORDER[i] \in DOMAIN statusCounts
                     THEN statusCounts[STATUS_ORDER[i]] ELSE 0,
           color |-> GetStatusColor(STATUS_ORDER[i], ThemeMode),
           lightColor |-> <<GetStatusColor(STATUS_ORDER[i], ThemeMode), "33">>]]

\* statusData.filter(entry => entry.value > 0)
RECURSIVE NonZero(_)
NonZero(statusData) ==
    IF statusData = <<>> THEN <<>>
    ELSE (IF Head(statusData).value > 0 THEN <<Head(statusData)>> ELSE <<>>)
            \o NonZero(Tail(statusData))

\* The Cells under the Pie: statusData.map((entry, index) => <Cell fill={entry.color}/>)
PieCells(statusData) == [i \in 1..Len(statusData) |-> [fill |-> statusData[i].color]]

\* The sectors recharts draws: one per entry of the Pie's data, the i-th with
\* the props of the i-th Cell.
PieSectors(statusData) ==
    LET data == NonZero(statusData)
        cells == PieCells(statusData)
    IN [i \in 1..Len(data) |->
          [name |-> data[i].name, value |-> data[i].value,
           fill |-> IF i <= Len(cells) THEN cells[i].fill ELSE "none"]]

\* Mutant of Bump: a month new to the object starts at its position in it.
Bump_Positional(entries, month) ==
    IF \E i \in 1..Len(entries) : entries[i].name = month
    THEN [i \in 1..Len(entries) |->
            IF entries[i].name = month
            THEN [entries[i] EXCEPT !.Applications = @ + 1]
            ELSE entries[i]]
    ELSE Append(entries, [name |-> month, Applications |-> Len(entries) + 1])

\* acc[month] = (acc[month] || 0) + 1 on an object whose keys keep insertion order.
Bump(entries, month) ==
    IF \E i \in 1..Len(entries) : entries[i].name = month
    THEN [i \in 1..Len(entries) |->
            IF entries[i].name = month
            THEN [entries[i] EXCEPT !.Applications = @ + 1]
            ELSE entries[i]]
    ELSE Append(entries, [name |-> month, Applications |-> 1])

RECURSIVE MonthlyReduce(_, _, _, _)
\* The monthlyCounts reduce from record i on; format throws on an Invalid Date,
\* which ends the reduce and the whole computation.
MonthlyReduce(js, i, acc, offset) ==
    IF i > Len(js) \/ Len(acc) < 0 THEN [raised |-> FALSE, entries |-> acc]
    ELSE IF ~Truthy(js[i].dateApplied) THEN MonthlyReduce(js, i + 1, acc, offset)
    ELSE LET date == NewDate(js[i].dateApplied)
         IN IF ~date.valid THEN [raised |-> TRUE, entries |-> <<>>]
            ELSE MonthlyReduce(js, i + 1, Bump(acc, FormatMonth(date, offset)), offset)

\* Object.entries(monthlyCounts).map(([name, Applications]) => ({name, Applications}))
MonthlyData(js, offset) == MonthlyReduce(js, 1, <<>>, offset)

\* statusData.find(s => s.name === name)?.value || 0
FindValue(statusData, name) ==
    IF \E i \in 1..Len(statusData) : statusData[i].name = name
    THEN statusData[CHOOSE i \in 1..Len(statusData) :
                        /\ statusData[i].name = name
                        /\ \A k \in 1..(i - 1) : statusData[k].name # name].value
    ELSE 0

\* denominator > 0 ? Math.round((numerator / denominator) * 100) : 0
Rate(numerator, denominator) ==
    IF denominator > 0 THEN RoundPercent(numerator, denominator) ELSE 0

\* The value of a render in which the computation threw: no metrics.
Raised == [raised |-> TRUE]

\* The useMemo callback on the record list js in a browser at the given offset.
ComputeMetrics(js, offset) ==
    IF Len(js) = 0
    THEN [raised |-> FALSE, statusData |-> <<>>, monthlyData |-> <<>>,
          totalJobs |-> 0, successRate |-> 0, successJobs |-> 0,
          applicationToInterviewRate |-> 0, interviewToOfferRate |-> 0,
          offerToAcceptanceRate |-> 0, interviewCount |-> 0, offerCount |-> 0,
          appliedCount |-> 0]
    ELSE LET statusData == StatusData(js)
             monthly == MonthlyData(js, offset)
             successJobs == FindValue(statusData, "Accepted")
             interviewCount == FindValue(statusData, "Interview")
             offerCount == FindValue(statusData, "Offer")
             appliedCount == FindValue(statusData, "Applied")
         IN IF monthly.raised THEN Raised
            ELSE [raised |-> FALSE, statusData |-> statusData,
                  monthlyData |-> monthly.entries,
                  totalJobs |-> Len(js),
                  successRate |-> Rate(successJobs, Len(js)),
                  successJobs |-> successJobs,
                  applicationToInterviewRate |-> Rate(interviewCount, appliedCount),
                  interviewToOfferRate |-> Rate(offerCount, interviewCount),
                  offerToAcceptanceRate |-> Rate(successJobs, offerCount),
                  interviewCount |-> interviewCount, offerCount |-> offerCount,
                  appliedCount |-> appliedCount]

-----------------------------------------------------------------------------
(* The aggregator on its own: the Dashboard is handed record lists of the   *)
(* Job type directly, one record more at a time, and renders each.         *)

\* Browser offsets from UTC, in hours: one west of UTC, and UTC itself (an
\* offset east of UTC gives the same local day as UTC).
TimeZones == {-5, 0}

NoError == "null"

\* The JobForm shows nothing: error is '' and no field is flagged by the browser.
NoFormError == [alert |-> "", native |-> FALSE]

\* useState<JobStatus>('Applied')
DefaultStatus == "Applied"

\* new Date().toISOString().split('T')[0]: the day the form is used.
Today == IsoDate(2024, 2, 1)

\* The JobForm as it mounts, and its fields after handleClose.
FormDefaults ==
    [open |-> FALSE, company |-> <<>>, role |-> <<>>, dateApplied |-> Today,
     status |-> DefaultStatus, loading |-> FALSE]

\* No gateway call has been made.
NoCall == "none"

InputDates ==
    {DateUndefined, DateEmpty, DateText, IsoDate(2024, 1, 15), IsoDate(2024, 2, 1)}

InputNotes == {Undefined, "note"}

\* A long list is k records of one status followed by records of another,
\* all applied on the same day: the pairs the four rates divide.
BulkPairs ==
    {<<"Accepted", "Rejected">>, <<"Interview", "Applied">>,
     <<"Offer", "Interview">>, <<"Accepted", "Offer">>}

BulkJob(i, status) == Job(i, "Acme", "Dev", IsoDate(2024, 1, 15), status, Undefined, 0)

IsBulk(js) ==
    /\ \A i \in 1..Len(js) : js[i] = BulkJob(i, js[i].status)
    /\ \E pair \in BulkPairs : \E k \in 0..Len(js) :
          \A i \in 1..Len(js) : js[i].status = IF i <= k THEN pair[1] ELSE pair[2]

Reverse(js) == [i \in 1..Len(js) |-> js[Len(js) + 1 - i]]

\* Mutant of Render: the computation reverses the list it is handed, in place.
Render_Reverses(js) ==
    /\ jobs' = Reverse(js)
    /\ metrics' = ComputeMetrics(js, tz)
    /\ UNCHANGED <<store, queue, sub, loading, error, lastSnap, tz, now,
                   mounted, formError, settled, form, inflight>>

\* The provider hands the Dashboard a list and the Dashboard renders it.
Render(js) ==
    /\ jobs' = js
    /\ metrics' = ComputeMetrics(js, tz)
    /\ UNCHANGED <<store, queue, sub, loading, error, lastSnap, tz, now,
                   mounted, formError, settled, form, inflight>>

AddRecord ==
    /\ Len(jobs) < MaxJobs
    /\ \E status \in JobStatus, date \in InputDates, notes \in InputNotes :
          Render(Append(jobs, Job(Len(jobs) + 1, "Acme", "Dev", date, status, notes, 0)))

AddBulkRecord ==
    /\ Len(jobs) < MaxBulk
    /\ IsBulk(jobs)
    /\ \E status \in JobStatus :
          /\ IsBulk(Append(jobs, BulkJob(Len(jobs) + 1, status)))
          /\ Render(Append(jobs, BulkJob(Len(jobs) + 1, status)))

AggInit ==
    /\ tz \in TimeZones
    /\ jobs = <<>>
    /\ metrics = ComputeMetrics(<<>>, tz)
    /\ store = <<>>
    /\ queue = <<>>
    /\ sub = "closed"
    /\ loading = FALSE
    /\ error = NoError
    /\ lastSnap = <<>>
    /\ now = 0
    /\ mounted = FALSE
    /\ formError = NoFormError
    /\ settled = NoCall
    /\ form = FormDefaults
    /\ inflight = <<>>

AggNext == AddRecord \/ AddBulkRecord

AggSpec == AggInit /\ [][AggNext]_vars

-----------------------------------------------------------------------------
(* The aggregator on lists that are then rearranged: records of every       *)
(* status in two months, an undated one and one whose date is no date.     *)

PermInputs ==
    {<<status, date>> : status \in JobStatus,
                        date \in {IsoDate(2024, 1, 15), IsoDate(2024, 2, 1)}}
        \cup {<<"Applied", DateEmpty>>, <<"Applied", DateText>>}

AddPermRecord ==
    /\ Len(jobs) < MaxPerm
    /\ \E input \in PermInputs :
          Render(Append(jobs, Job(Len(jobs) + 1, "Acme", "Dev", input[2], input[1],
                                  Undefined, 0)))

PermNext == AddPermRecord

PermSpec == AggInit /\ [][PermNext]_vars

-----------------------------------------------------------------------------
(* contexts/JobContext: the Firestore collection and the JobProvider *)

\* Document keys (Firestore auto-ids) the collection may hand out.
Keys == 1..MaxDocs

\* uuidv4(): a fresh identifier, unrelated to any document key.
UuidBase == 100
Uuid(t) == UuidBase + t

\* A deleted document: its key is never handed out again.
Deleted == [exists |-> FALSE]

Exists(st, key) == key \in DOMAIN st /\ st[key].exists

\* The query snapshot of the collection: the existing documents by key.
RECURSIVE SnapshotFrom(_, _)
SnapshotFrom(st, key) ==
    IF key > MaxDocs THEN <<>>
    ELSE (IF Exists(st, key) THEN <<[key |-> key, data |-> st[key].data]>> ELSE <<>>)
            \o SnapshotFrom(st, key + 1)

Snapshot(st) == SnapshotFrom(st, 1)

\* The listener fires with the new contents while it is attached.
Notify(st) == IF sub = "active" THEN Append(queue, Snapshot(st)) ELSE queue

\* data.f for a document's data: undefined when the document has no field f.
Field(data, f) == IF f \in DOMAIN data THEN data[f] ELSE Undefined

\* data.dateApplied, as a dateApplied value.
DateField(data) ==
    IF "dateApplied" \in DOMAIN data THEN data.dateApplied ELSE DateUndefined

\* Mutant of MapDocs: the id is read from the document's data, not its key.
MapDocs_DataId(snap) ==
    [i \in 1..Len(snap) |->
        Job(snap[i].data.id, Field(snap[i].data, "company"), Field(snap[i].data, "role"),
            DateField(snap[i].data), Field(snap[i].data, "status"),
            Field(snap[i].data, "notes"), snap[i].data.updatedAt)]

\* querySnapshot.forEach(doc => jobsData.push({id: doc.id, ...doc.data() fields}))
MapDocs(snap) ==
    [i \in 1..Len(snap) |->
        Job(snap[i].key, Field(snap[i].data, "company"), Field(snap[i].data, "role"),
            DateField(snap[i].data), Field(snap[i].data, "status"),
            Field(snap[i].data, "notes"), snap[i].data.updatedAt)]

\* What the try block of the snapshot callback may throw: nothing, an Error,
\* or a value that is no Error.
Thrown == {"none", "TypeError", "non-Error"}

\* error instanceof Error ? error : new Error('Failed to process jobs data')
CaughtError(thrown) ==
    IF thrown = "non-Error" THEN "Failed to process jobs data" ELSE thrown

\* Errors the listener reports through its error callback.
SubscriptionErrors == {"permission-denied", "unavailable"}

\* Mutant of OnSnapshot: an empty snapshot is not stored into jobs.
OnSnapshot_SkipEmpty(thrown) ==
    /\ sub = "active"
    /\ queue # <<>>
    /\ LET snap == Head(queue)
           ok == thrown = "none"
           put == ok /\ snap # <<>>
       IN /\ jobs' = IF put THEN MapDocs(snap) ELSE jobs
          /\ lastSnap' = IF put THEN snap ELSE lastSnap
          /\ error' = IF ok THEN NoError ELSE CaughtError(thrown)
          /\ loading' = FALSE
          /\ queue' = Tail(queue)
          /\ metrics' = ComputeMetrics(jobs', tz)
    /\ UNCHANGED <<store, sub, tz, now, mounted, formError, settled, form, inflight>>

\* The onSnapshot success callback on the oldest undelivered snapshot, and the
\* render that follows it.
OnSnapshot(thrown) ==
    /\ sub = "active"
    /\ queue # <<>>
    /\ LET snap == Head(queue)
           ok == thrown = "none"
       IN /\ jobs' = IF ok THEN MapDocs(snap) ELSE jobs
          /\ lastSnap' = IF ok THEN snap ELSE lastSnap
          /\ error' = IF ok THEN NoError ELSE CaughtError(thrown)
          /\ loading' = FALSE
          /\ queue' = Tail(queue)
          /\ metrics' = ComputeMetrics(jobs', tz)
    /\ UNCHANGED <<store, sub, tz, now, mounted, formError, settled, form, inflight>>

\* Mutant of OnError: the list is emptied when the subscription fails.
OnError_ClearsJobs(e) ==
    /\ sub = "active"
    /\ error' = e
    /\ loading' = FALSE
    /\ jobs' = <<>>
    /\ sub' = "errored"
    /\ queue' = <<>>
    /\ metrics' = ComputeMetrics(jobs', tz)
    /\ UNCHANGED <<store, lastSnap, tz, now, mounted, formError, settled, form, inflight>>

\* The onSnapshot error callback; the listener gets no event after it.
OnError(e) ==
    /\ sub = "active"
    /\ error' = e
    /\ loading' = FALSE
    /\ sub' = "errored"
    /\ queue' = <<>>
    /\ UNCHANGED <<store, jobs, lastSnap, metrics, tz, now, mounted, formError, settled, form, inflight>>

\* Mutant of Unmount: the cleanup does not call unsubscribe().
Unmount_KeepsListener ==
    /\ mounted
    /\ mounted' = FALSE
    /\ UNCHANGED <<store, queue, sub, jobs, loading, error, lastSnap, metrics, tz, now,
                   formError, settled, form, inflight>>

\* The effect's cleanup on unmount: unsubscribe().  Snapshots the listener
\* had fired and not yet handed over are dropped with it.
Unmount ==
    /\ mounted
    /\ mounted' = FALSE
    /\ sub' = "closed"
    /\ queue' = <<>>
    /\ UNCHANGED <<store, jobs, loading, error, lastSnap, metrics, tz, now,
                   formError, settled, form, inflight>>

\* {...job, id: uuidv4(), updatedAt: new Date().toISOString()}: the fields job
\* has, and the two added ones.
NewJob(job, t) ==
    [f \in DOMAIN job \cup {"id", "updatedAt"} |->
        IF f = "id" THEN Uuid(t) ELSE IF f = "updatedAt" THEN t ELSE job[f]]

\* Mutant of AddJob: the provider shows its spinner again while it writes.
AddJob_SetsLoading(job) ==
    /\ mounted
    /\ now < MaxOps
    /\ \E key \in Keys \ DOMAIN store :
          LET st == [k \in DOMAIN store \cup {key} |->
                        IF k = key THEN [exists |-> TRUE, data |-> NewJob(job, now)]
                        ELSE store[k]]
          IN /\ store' = st
             /\ queue' = Notify(st)
    /\ now' = now + 1
    /\ settled' = "resolved"
    /\ loading' = TRUE
    /\ UNCHANGED <<sub, jobs, error, lastSnap, metrics, tz, mounted, form, inflight>>

\* addJob(job): addDoc creates a document under a fresh key, whatever fields
\* the data has, and the promise resolves.
AddJob(job) ==
    /\ mounted
    /\ now < MaxOps
    /\ \E key \in Keys \ DOMAIN store :
          LET st == [k \in DOMAIN store \cup {key} |->
                        IF k = key THEN [exists |-> TRUE, data |-> NewJob(job, now)]
                        ELSE store[k]]
          IN /\ store' = st
             /\ queue' = Notify(st)
    /\ now' = now + 1
    /\ settled' = "resolved"
    /\ UNCHANGED <<sub, jobs, loading, error, lastSnap, metrics, tz, mounted, form, inflight>>

\* Mutant of UpdateData: the document's data is replaced (as setDoc would).
UpdateData_Replace(data, status, t) == [status |-> status, updatedAt |-> t]

\* updateDoc(ref, {status, updatedAt}): the two fields are set, the others kept.
UpdateData(data, status, t) ==
    [f \in DOMAIN data \cup {"status", "updatedAt"} |->
        IF f = "status" THEN status ELSE IF f = "updatedAt" THEN t ELSE data[f]]

\* updateJobStatus(id, status): updateDoc rejects (not-found) when there is no
\* such document, and the rejection is passed on.
UpdateJobStatus(id, status) ==
    /\ mounted
    /\ now < MaxOps
    /\ IF Exists(store, id)
       THEN LET st == [store EXCEPT ![id].data = UpdateData(@, status, now)]
            IN /\ store' = st
               /\ queue' = Notify(st)
               /\ settled' = "resolved"
       ELSE /\ UNCHANGED <<store, queue, form, inflight>>
            /\ settled' = "rejected"
    /\ now' = now + 1
    /\ UNCHANGED <<sub, jobs, loading, error, lastSnap, metrics, tz, mounted, formError, form, inflight>>

\* deleteJob(id): deleteDoc resolves whether or not there is such a document.
DeleteJob(id) ==
    /\ mounted
    /\ now < MaxOps
    /\ LET st == IF Exists(store, id) THEN [store EXCEPT ![id] = Deleted] ELSE store
       IN /\ store' = st
          /\ queue' = IF Exists(store, id) THEN Notify(st) ELSE queue
    /\ settled' = "resolved"
    /\ now' = now + 1
    /\ UNCHANGED <<sub, jobs, loading, error, lastSnap, metrics, tz, mounted, formError, form, inflight>>

-----------------------------------------------------------------------------
(* components/JobForm and components/JobList *)

\* Text typed into a field: a sequence of characters.
Whitespace == {" "}

RECURSIVE TrimStart(_)
TrimStart(text) ==
    IF text # <<>> /\ Head(text) \in Whitespace THEN TrimStart(Tail(text)) ELSE text

RECURSIVE TrimEnd(_)
TrimEnd(text) ==
    IF text # <<>> /\ text[Len(text)] \in Whitespace
    THEN TrimEnd(SubSeq(text, 1, Len(text) - 1)) ELSE text

\* Mutant of Trim: the text is taken as typed.
Trim_None(text) == text

\* String.prototype.trim
Trim(text) == TrimEnd(TrimStart(text))

\* What can be typed into the company and role fields, what the status menu
\* offers (FormStatuses_Wishlist: a mutant with one more item), and what the
\* date input gives: an ISO date or "".
FormTexts == {<<>>, <<" ">>, <<" ", "A", " ">>}
FilledTexts == {text \in FormTexts : Trim(text) # <<>>}
FormStatuses_Wishlist == {"Applied", "Interview", "Offer", "Rejected", "Wishlist"}
FormStatuses == {"Applied", "Interview", "Offer", "Rejected"}
FormDates == {IsoDate(2024, 2, 1), DateEmpty}

RequiredMessage == "Company and role are required"

\* The submit button of the JobForm.  A required field left empty makes the
\* browser flag it and not raise the submit event; otherwise handleSubmit runs.
HandleSubmit(company, role, dateApplied, status) ==
    /\ mounted
    /\ IF company = <<>> \/ role = <<>>
       THEN /\ formError' = [formError EXCEPT !.native = TRUE]
            /\ UNCHANGED <<store, queue, sub, jobs, loading, error, lastSnap,
                           metrics, tz, now, mounted, settled, form, inflight>>
       ELSE IF Trim(company) = <<>> \/ Trim(role) = <<>>
       THEN /\ formError' = [alert |-> RequiredMessage, native |-> FALSE]
            /\ UNCHANGED <<store, queue, sub, jobs, loading, error, lastSnap,
                           metrics, tz, now, mounted, settled, form, inflight>>
       ELSE /\ AddJob([company |-> Trim(company), role |-> Trim(role),
                       dateApplied |-> dateApplied, status |-> status])
            /\ formError' = NoFormError

\* Mutant of DashboardView: the empty-list test comes before the error test.
DashboardView_ErrorLast ==
    IF ~mounted THEN "unmounted"
    ELSE IF metrics.raised THEN "crashed"
    ELSE IF loading THEN "spinner"
    ELSE IF metrics.totalJobs = 0 THEN "empty"
    ELSE IF Len(jobs) > 0 THEN "charts"
    ELSE "error"

\* What the Dashboard renders: the useMemo runs first (a throw ends the
\* render), then the guards on loading, error and totalJobs, then the
\* statistics and charts.
DashboardView ==
    IF ~mounted THEN "unmounted"
    ELSE IF metrics.raised THEN "crashed"
    ELSE IF loading THEN "spinner"
    ELSE IF error # NoError THEN "error"
    ELSE IF metrics.totalJobs = 0 THEN "empty"
    ELSE "charts"

\* The JobList is shown, with a row for every record of jobs.
ListShown == mounted /\ ~loading /\ Len(jobs) > 0

\* The collection as earlier sessions left it: empty, or holding a document
\* that an earlier addJob created.
EarlierJob ==
    [id |-> Uuid(-1), company |-> <<"A">>, role |-> <<"D">>,
     dateApplied |-> IsoDate(2024, 1, 15), status |-> "Applied", updatedAt |-> -1]

InitialStores == {<<>>, <<[exists |-> TRUE, data |-> EarlierJob]>>}

\* The provider is followed in a browser west of UTC.
SessionZones == {tz0 \in TimeZones : tz0 < 0}

\* The provider has mounted: the listener is attached and its first snapshot,
\* of the collection as it is, is on its way.
Init ==
    /\ tz \in SessionZones
    /\ store \in InitialStores
    /\ queue = <<Snapshot(store)>>
    /\ sub = "active"
    /\ jobs = <<>>
    /\ loading = TRUE
    /\ error = NoError
    /\ lastSnap = <<>>
    /\ metrics = ComputeMetrics(<<>>, tz)
    /\ now = 0
    /\ mounted = TRUE
    /\ formError = NoFormError
    /\ settled = NoCall
    /\ form = FormDefaults
    /\ inflight = <<>>

Deliver == \E thrown \in Thrown : OnSnapshot(thrown)

Fail == \E e \in SubscriptionErrors : OnError(e)

\* A submission with the company and the role filled in.
SubmitFilled ==
    \E company \in FilledTexts, role \in FilledTexts,
       status \in FormStatuses, date \in FormDates :
        HandleSubmit(company, role, date, status)

\* The status Select of a row of the list: handleStatusChange(job.id, value).
ChangeStatus ==
    /\ ListShown
    /\ \E i \in 1..Len(jobs), status \in JobStatus : UpdateJobStatus(jobs[i].id, status)

\* The delete button of a row of the list, confirmed: handleDelete(job.id).
Remove ==
    /\ ListShown
    /\ \E i \in 1..Len(jobs) : DeleteJob(jobs[i].id)

Next == Deliver \/ Fail \/ Unmount \/ SubmitFilled \/ ChangeStatus \/ Remove

Spec == Init /\ [][Next]_vars

\* A Deliver step, told by what it does to the listener's queue: the oldest
\* snapshot leaves it and the listener stays attached.  No other step of Next
\* does that, and it is possible exactly when Deliver is.
Dequeue ==
    /\ sub = "active"
    /\ queue # <<>>
    /\ queue' = Tail(queue)
    /\ sub' = sub

\* The event loop runs a callback that stays due: a snapshot queued on an
\* attached listener is eventually handed to the success callback.
LiveSpec == Spec /\ WF_<<queue, sub>>(Dequeue)

-----------------------------------------------------------------------------
(* The form with anything typed into it: the company and the role may be    *)
(* left empty or blank; the status is left at its default.                 *)

Submit ==
    \E company \in FormTexts, role \in FormTexts, date \in FormDates :
        HandleSubmit(company, role, date, DefaultStatus)

FormNext == Deliver \/ Submit

FormSpec == Init /\ [][FormNext]_vars

-----------------------------------------------------------------------------
(* The JobForm's dialog step by step: it is opened and closed, its fields   *)
(* are filled in, and a submission's addJob call settles some time after   *)
(* handleSubmit started it.                                                *)

FailedMessage == "Failed to add job. Please try again."

\* What is chosen in the dialog's date and status fields.
DialogDates == {Today, DateEmpty}
DialogStatuses == {DefaultStatus, "Interview"}

\* Every variable but those of the JobForm.
providerVars ==
    <<store, queue, sub, jobs, loading, error, lastSnap, metrics, tz, now,
      mounted, settled, inflight>>

\* handleClickOpen, from the button behind the dialog.
HandleClickOpen ==
    /\ mounted
    /\ ~form.open
    /\ form' = [form EXCEPT !.open = TRUE]
    /\ UNCHANGED <<providerVars, formError>>

\* handleClose: the dialog closes, the fields and the error are reset; the
\* loading flag is left as it is.
HandleClose ==
    /\ form' = [FormDefaults EXCEPT !.loading = form.loading]
    /\ formError' = NoFormError

\* The dialog is closed by Cancel (disabled while loading), by a click on
\* the backdrop or by Escape (the Dialog's onClose).
CloseReasons == {"cancel", "backdropClick", "escapeKeyDown"}

CloseDialog(reason) ==
    /\ mounted
    /\ form.open
    /\ reason = "cancel" => ~form.loading
    /\ HandleClose
    /\ UNCHANGED providerVars

Close == \E reason \in CloseReasons : CloseDialog(reason)

\* onChange of the four fields.
SetField(field, value) ==
    /\ mounted
    /\ form.open
    /\ form' = [form EXCEPT ![field] = value]
    /\ UNCHANGED <<providerVars, formError>>

TypeCompany == \E text \in FormTexts : SetField("company", text)

TypeRole == \E text \in FormTexts : SetField("role", text)

ChooseDate == \E date \in DialogDates : SetField("dateApplied", date)

ChooseStatus == \E status \in DialogStatuses : SetField("status", status)

\* Mutant of HandleSubmitStart: the submit button is not disabled while loading.
HandleSubmitStart_NotDisabled ==
    /\ mounted
    /\ form.open
    /\ IF form.company = <<>> \/ form.role = <<>>
       THEN /\ formError' = [formError EXCEPT !.native = TRUE]
            /\ UNCHANGED <<providerVars, form>>
       ELSE IF Trim(form.company) = <<>> \/ Trim(form.role) = <<>>
       THEN /\ formError' = [alert |-> RequiredMessage, native |-> FALSE]
            /\ UNCHANGED <<providerVars, form>>
       ELSE /\ now < MaxOps
            /\ formError' = NoFormError
            /\ form' = [form EXCEPT !.loading = TRUE]
            /\ inflight' = Append(inflight,
                    NewJob([company |-> Trim(form.company), role |-> Trim(form.role),
                            dateApplied |-> form.dateApplied, status |-> form.status], now))
            /\ now' = now + 1
            /\ UNCHANGED <<store, queue, sub, jobs, loading, error, lastSnap, metrics,
                           tz, mounted, settled>>

\* The submit button (disabled while loading), up to the await: the
\* browser's required-field check, handleSubmit's validation, setLoading(true)
\* and the call of addJob, which builds the new record and calls addDoc.
HandleSubmitStart ==
    /\ mounted
    /\ form.open
    /\ ~form.loading
    /\ IF form.company = <<>> \/ form.role = <<>>
       THEN /\ formError' = [formError EXCEPT !.native = TRUE]
            /\ UNCHANGED <<providerVars, form>>
       ELSE IF Trim(form.company) = <<>> \/ Trim(form.role) = <<>>
       THEN /\ formError' = [alert |-> RequiredMessage, native |-> FALSE]
            /\ UNCHANGED <<providerVars, form>>
       ELSE /\ now < MaxOps
            /\ formError' = NoFormError
            /\ form' = [form EXCEPT !.loading = TRUE]
            /\ inflight' = Append(inflight,
                    NewJob([company |-> Trim(form.company), role |-> Trim(form.role),
                            dateApplied |-> form.dateApplied, status |-> form.status], now))
            /\ now' = now + 1
            /\ UNCHANGED <<store, queue, sub, jobs, loading, error, lastSnap, metrics,
                           tz, mounted, settled>>

\* addDoc creates the document and the promise resolves: handleSubmit goes on
\* with handleClose() and, in its finally block, setLoading(false).
AddResolves ==
    /\ mounted
    /\ inflight # <<>>
    /\ \E key \in Keys \ DOMAIN store :
          LET st == [k \in DOMAIN store \cup {key} |->
                        IF k = key THEN [exists |-> TRUE, data |-> Head(inflight)]
                        ELSE store[k]]
          IN /\ store' = st
             /\ queue' = Notify(st)
    /\ inflight' = Tail(inflight)
    /\ settled' = "resolved"
    /\ form' = [FormDefaults EXCEPT !.loading = FALSE]
    /\ formError' = NoFormError
    /\ UNCHANGED <<sub, jobs, loading, error, lastSnap, metrics, tz, now, mounted>>

\* addDoc fails (no permission, say) and the promise rejects: handleSubmit's
\* catch sets the failure message and its finally block setLoading(false).
AddRejects ==
    /\ mounted
    /\ inflight # <<>>
    /\ inflight' = Tail(inflight)
    /\ settled' = "rejected"
    /\ form' = [form EXCEPT !.loading = FALSE]
    /\ formError' = [formError EXCEPT !.alert = FailedMessage]
    /\ UNCHANGED <<store, queue, sub, jobs, loading, error, lastSnap, metrics, tz, now,
                   mounted>>

DialogNext ==
    \/ HandleClickOpen \/ Close
    \/ TypeCompany \/ TypeRole \/ ChooseDate \/ ChooseStatus
    \/ HandleSubmitStart \/ AddResolves \/ AddRejects

DialogSpec == Init /\ [][DialogNext]_vars

-----------------------------------------------------------------------------
(* The gateway called directly: a consumer of useJobs() hands addJob a      *)
(* record of its own making, with or without each required field.          *)

RequiredFields == {"company", "role", "dateApplied", "status"}

FullRecord ==
    [company |-> <<"A">>, role |-> <<"D">>, dateApplied |-> IsoDate(2024, 2, 1),
     status |-> "Applied"]

Without(record, f) == [g \in DOMAIN record \ {f} |-> record[g]]

\* The complete record, and the records that lack one required field.
GatewayRecords == {FullRecord} \cup {Without(FullRecord, f) : f \in RequiredFields}

CallAddJob == \E job \in GatewayRecords : AddJob(job) /\ UNCHANGED formError

GatewayNext == Deliver \/ CallAddJob \/ ChangeStatus \/ Remove

GatewaySpec == Init /\ [][GatewayNext]_vars

-----------------------------------------------------------------------------
(* The collection is shared: another client of the same Firestore project   *)
(* may delete a document at any time, also after this provider unmounted.  *)
(* Here this client only changes statuses: the documents are those of      *)
(* earlier sessions and the deletions are the other client's.             *)

RemoteDelete ==
    /\ \E key \in DOMAIN store :
          /\ Exists(store, key)
          /\ LET st == [store EXCEPT ![key] = Deleted]
             IN /\ store' = st
                /\ queue' = Notify(st)
    /\ UNCHANGED <<sub, jobs, loading, error, lastSnap, metrics, tz, now,
                   mounted, formError, settled, form, inflight>>

SharedNext == Deliver \/ Fail \/ Unmount \/ ChangeStatus \/ RemoteDelete

SharedSpec == Init /\ [][SharedNext]_vars

-----------------------------------------------------------------------------
(* Properties of the aggregator (AggSpec).  A property of the values the    *)
(* aggregator produces is stated of the renders in which it returned;       *)
(* that it always returns is C3.                                            *)

RECURSIVE SumOf(_, _)
\* The sum of field f over the first n entries of a sequence.
SumOf(entries, n) ==
    IF n = 0 THEN 0 ELSE SumOf(entries, n - 1) + entries[n]

StatusValues(m) == [i \in 1..Len(m.statusData) |-> m.statusData[i].value]
MonthlyValues(m) == [i \in 1..Len(m.monthlyData) |-> m.monthlyData[i].Applications]

\* The number of records of js currently in the given status.
InStatus(js, status) == Cardinality({i \in 1..Len(js) : js[i].status = status})

\* The records of js whose dateApplied is a calendar date.
Parseable(js) ==
    {i \in 1..Len(js) : Truthy(js[i].dateApplied) /\ NewDate(js[i].dateApplied).valid}

\* C1: for every input list, the empty one included, the status histogram has
\* exactly the five keys Applied, Interview, Offer, Accepted, Rejected, in that
\* order, each with a count >= 0.
C1_FiveStatusKeys ==
    ~metrics.raised =>
        /\ [i \in 1..Len(metrics.statusData) |-> metrics.statusData[i].name] = STATUS_ORDER
        /\ \A i \in 1..Len(metrics.statusData) : metrics.statusData[i].value >= 0

\* C2: each of the four rates is an integer between 0 and 100 inclusive.
C2_RatesArePercentages ==
    ~metrics.raised =>
        \A r \in {metrics.successRate, metrics.applicationToInterviewRate,
                  metrics.interviewToOfferRate, metrics.offerToAcceptanceRate} :
            r \in 0..100

\* C3: the aggregator returns a metrics value for every record list and never
\* raises: not for the empty list, not for records without notes, not for a
\* dateApplied that is a non-empty string and no calendar date.
C3_AggregatorTotal == ~metrics.raised

\* C4: the sum of the five status counts equals totalCount, the number of
\* records in the list.
C4_StatusSumIsTotal ==
    ~metrics.raised =>
        /\ metrics.totalJobs = Len(jobs)
        /\ SumOf(StatusValues(metrics), Len(metrics.statusData)) = metrics.totalJobs

\* C4 witness: a rendered list of several records in different statuses, one
\* of them without a usable date, one status repeated.
C4_Witness ==
    /\ ~metrics.raised
    /\ Len(jobs) >= 3
    /\ \E i, j, k \in 1..Len(jobs) :
          /\ i # j /\ jobs[i].status = jobs[j].status
          /\ jobs[k].status # jobs[i].status

\* C5: a record whose dateApplied is unparseable (empty, absent or no calendar
\* date) is still counted in totalCount and in its status's count and adds
\* nothing to monthlyCounts: the monthlyCounts values sum to the number of
\* records with a parseable dateApplied.
C5_UnparseableDatesCounted ==
    /\ ~metrics.raised
    /\ metrics.totalJobs = Len(jobs)
    /\ \A status \in JobStatus :
          FindValue(metrics.statusData, status) = InStatus(jobs, status)
    /\ SumOf(MonthlyValues(metrics), Len(metrics.monthlyData))
          = Cardinality(Parseable(jobs))

\* round(100 * numerator / denominator), to the nearest integer, a tie going
\* up; 0 when the denominator is 0.
ExactRate(numerator, denominator) ==
    IF denominator > 0
    THEN (200 * numerator + denominator) \div (2 * denominator)
    ELSE 0

\* C6: each rate is round(100 * numerator / denominator), ties rounded up, and
\* 0 for a zero denominator, where the pair is (Accepted, total), (Interview,
\* Applied), (Offer, Interview), (Accepted, Offer), counting the records
\* currently in each status.
C6_RatesAreRoundedRatios ==
    ~metrics.raised =>
        /\ metrics.successRate = ExactRate(InStatus(jobs, "Accepted"), Len(jobs))
        /\ metrics.applicationToInterviewRate
              = ExactRate(InStatus(jobs, "Interview"), InStatus(jobs, "Applied"))
        /\ metrics.interviewToOfferRate
              = ExactRate(InStatus(jobs, "Offer"), InStatus(jobs, "Interview"))
        /\ metrics.offerToAcceptanceRate
              = ExactRate(InStatus(jobs, "Accepted"), InStatus(jobs, "Offer"))

\* The label of the calendar month and year a dateApplied string names.
MonthOf(s) == [mon |-> MonthNames[s.m], year |-> s.y]

\* The records of js dated in the month with the given label.
InMonth(js, label) == {i \in Parseable(js) : MonthOf(js[i].dateApplied) = label}

First(S) == CHOOSE i \in S : \A k \in S : i <= k

\* C7: monthlyCounts has a key for a month label exactly when a record's
\* dateApplied falls in that calendar month and year, its value is the number
\* of such records, and the keys are in the order in which their month first
\* occurs in the list.
C7_MonthlyCountsByMonth ==
    ~metrics.raised =>
        LET md == metrics.monthlyData
            labels == {md[i].name : i \in 1..Len(md)}
                        \cup {MonthOf(jobs[i].dateApplied) : i \in Parseable(jobs)}
        IN /\ \A label \in labels :
                 /\ InMonth(jobs, label) # {}
                 /\ Cardinality({i \in 1..Len(md) : md[i].name = label}) = 1
           /\ \A i \in 1..Len(md) :
                 md[i].Applications = Cardinality(InMonth(jobs, md[i].name))
           /\ \A i, j \in 1..Len(md) :
                 i < j => First(InMonth(jobs, md[i].name)) < First(InMonth(jobs, md[j].name))

-----------------------------------------------------------------------------
(* Properties of the provider (Spec, LiveSpec). *)

\* Record r of the list is the document doc, its id the document's key.
IsRecordOf(r, doc) ==
    /\ r.id = doc.key
    /\ r.company = doc.data.company
    /\ r.role = doc.data.role
    /\ r.dateApplied = doc.data.dateApplied
    /\ r.status = doc.data.status
    /\ r.updatedAt = doc.data.updatedAt

\* C8: after any sequence of change notifications the list is exactly the
\* records of the most recent successfully processed snapshot, nothing kept
\* from an earlier one and nothing merged, each record's id its document's
\* key, and the dashboard's metrics are the aggregator's result on that list.
C8_ListIsLatestSnapshot ==
    /\ Len(jobs) = Len(lastSnap)
    /\ \A i \in 1..Len(jobs) : IsRecordOf(jobs[i], lastSnap[i])
    /\ metrics = ComputeMetrics(jobs, tz)

\* C8 witness: a snapshot of fewer documents has replaced an earlier, longer
\* list (the earlier one held a document that is now deleted), and a newer
\* snapshot is still undelivered.
C8_Witness ==
    /\ \E key \in DOMAIN store : ~store[key].exists
    /\ Len(jobs) = 1
    /\ Len(lastSnap) = 1
    /\ queue # <<>>
    /\ ~loading

\* The list holds exactly the documents the collection holds now.
Synced ==
    /\ Len(jobs) = Cardinality({key \in DOMAIN store : store[key].exists})
    /\ \A i, j \in 1..Len(jobs) : i # j => jobs[i].id # jobs[j].id
    /\ \A i \in 1..Len(jobs) :
          /\ Exists(store, jobs[i].id)
          /\ IsRecordOf(jobs[i], [key |-> jobs[i].id, data |-> store[jobs[i].id].data])

\* C9: while the provider is subscribed and no error is reported, every change
\* of the collection (its notification is pending) is eventually followed by
\* a state in which the list equals the collection's current records.
C9_EventuallySynced ==
    (sub = "active" /\ queue # <<>>)
        ~> (Synced \/ sub # "active" \/ error # NoError)

\* C9 witness: after an add and a delete, both delivered, the list again
\* equals the collection, with the subscription live and no error.
C9_Witness ==
    /\ sub = "active"
    /\ error = NoError
    /\ queue = <<>>
    /\ now = MaxOps
    /\ \E key \in DOMAIN store : ~store[key].exists
    /\ Synced

\* C10: when the subscription fails through the error callback, error becomes
\* that error and loading false while the list is unchanged; when processing
\* a delivered snapshot throws, error is non-null, loading false and the list
\* unchanged.
C10_ErrorsKeepList ==
    [][/\ \A e \in SubscriptionErrors :
            OnError(e) => (error' = e /\ loading' = FALSE /\ jobs' = jobs)
       /\ \A thrown \in Thrown \ {"none"} :
            OnSnapshot(thrown) => (error' # NoError /\ loading' = FALSE /\ jobs' = jobs)
      ]_vars

\* C10 witness: the subscription failed after a snapshot had filled the list;
\* the list is still there.
C10_Witness ==
    /\ sub = "errored"
    /\ error \in SubscriptionErrors
    /\ ~loading
    /\ Len(jobs) > 0

\* C11: the provider holds one subscription from mount, and after it is
\* unmounted no change notification and no error from the store modifies the
\* list, the loading flag or the error value.
C11_UnmountReleases ==
    [][~mounted => (jobs' = jobs /\ loading' = loading /\ error' = error)]_vars

\* C11 witness: the provider is unmounted and the collection has changed
\* since the list was last filled; the list was left as it was.
C11_Witness ==
    /\ ~mounted
    /\ sub = "closed"
    /\ Len(jobs) > 0
    /\ lastSnap # Snapshot(store)

\* C12: the id that add assigns to a new record is the key of the document
\* it creates (so the list's id, which is the key, is the id add assigned).
C12_IdIsDocumentKey ==
    \A key \in DOMAIN store : Exists(store, key) => store[key].data.id = key

\* C13: after any sequence of form submissions, status changes from the list
\* and deletions, every record of the list has a status of the enumeration.
C13_StatusInEnumeration ==
    \A i \in 1..Len(jobs) : jobs[i].status \in JobStatus

\* C13 witness: the list holds a record whose status was set from the list's
\* Select (Accepted is not on the form) next to one as the form submitted it.
C13_Witness ==
    /\ Len(jobs) = 2
    /\ \E i, j \in 1..Len(jobs) :
          /\ jobs[i].status = "Accepted"
          /\ jobs[j].status \in FormStatuses \ {"Applied"}

\* C14: a status update of record id changes only that record's status and
\* updatedAt: its other fields, every other record and the number of records
\* are as before (and the list, until the notification arrives).
C14_UpdateTouchesOnlyStatus ==
    [][\A id \in Keys, status \in JobStatus :
          (Exists(store, id) /\ UpdateJobStatus(id, status)) =>
              /\ DOMAIN store' = DOMAIN store
              /\ \A key \in DOMAIN store \ {id} : store'[key] = store[key]
              /\ store'[id].exists
              /\ DOMAIN store'[id].data = DOMAIN store[id].data
              /\ \A f \in DOMAIN store[id].data \ {"status", "updatedAt"} :
                    store'[id].data[f] = store[id].data[f]
              /\ store'[id].data.status = status
              /\ jobs' = jobs
      ]_vars

\* C14 witness: one of two stored documents has had its status updated.
C14_Witness ==
    /\ \A key \in Keys : Exists(store, key)
    /\ \E key \in Keys :
          /\ store[key].data.status = "Accepted"
          /\ store[key].data.updatedAt > 0
    /\ settled = "resolved"

\* A text that is empty or only whitespace.
IsBlank(text) == \A i \in 1..Len(text) : text[i] \in Whitespace

\* C15: a submission whose company or role is empty or only whitespace is
\* rejected locally: addJob is not invoked (no promise settles, the clock is
\* not read), the collection is unchanged and the form shows a validation error.
\* (A submission is a step of the mounted form; one that leaves what the form
\* shows as it was changes nothing at all.  The status is the form's default:
\* handleSubmit does not read it before the company and the role pass.)
C15_BlankRejectedLocally ==
    [][(mounted /\ formError' # formError) =>
       \A company \in FormTexts, role \in FormTexts :
          (IsBlank(company) \/ IsBlank(role)) =>
          \A date \in FormDates :
          HandleSubmit(company, role, date, DefaultStatus) =>
              /\ store' = store
              /\ queue' = queue
              /\ settled' = settled
              /\ now' = now
              /\ (formError'.native \/ formError'.alert # "")
      ]_vars

\* C15 witness: a whitespace-only submission and an empty one were both turned
\* away after a record had been added.
C15_Witness ==
    /\ formError.alert = RequiredMessage
    /\ formError.native
    /\ settled = "resolved"

\* C16: addJob fails (the promise rejects, no document is created) whenever a
\* required field is absent from the record passed to it.
C16_AddRejectsIncomplete ==
    [][\A job \in GatewayRecords :
          (~(RequiredFields \subseteq DOMAIN job) /\ AddJob(job)) =>
              (settled' = "rejected" /\ store' = store)
      ]_vars

\* C17: updateJobStatus and deleteJob called with an id that no stored
\* document has fail: the promise rejects, and the collection and the list
\* are unchanged.
C17_MissingIdRejected ==
    [][\A id \in Keys :
          ~Exists(store, id) =>
              /\ \A status \in JobStatus :
                    UpdateJobStatus(id, status) =>
                        /\ settled' = "rejected"
                        /\ store' = store /\ jobs' = jobs
              /\ DeleteJob(id) =>
                    /\ settled' = "rejected"
                    /\ store' = store /\ jobs' = jobs
      ]_vars

-----------------------------------------------------------------------------
(* Relations between runs of the aggregator (PermSpec, AggSpec). *)

\* js with the records at i and i + 1 exchanged.
Swap(js, i) ==
    [k \in 1..Len(js) |-> IF k = i THEN js[i + 1] ELSE IF k = i + 1 THEN js[i] ELSE js[k]]

\* Rearrangements of js: every exchange of neighbours (they generate all
\* permutations) and the reversal.
Rearrangements(js) ==
    {Reverse(js)} \cup {Swap(js, i) : i \in 1..(Len(js) - 1)}

\* Two results agree in everything but the order of the monthlyCounts keys.
SameUpToKeyOrder(a, b) ==
    /\ a.raised = b.raised
    /\ ~a.raised =>
          /\ a.totalJobs = b.totalJobs
          /\ a.statusData = b.statusData
          /\ a.successRate = b.successRate
          /\ a.applicationToInterviewRate = b.applicationToInterviewRate
          /\ a.interviewToOfferRate = b.interviewToOfferRate
          /\ a.offerToAcceptanceRate = b.offerToAcceptanceRate
          /\ Len(a.monthlyData) = Len(b.monthlyData)
          /\ {a.monthlyData[i] : i \in 1..Len(a.monthlyData)}
                = {b.monthlyData[i] : i \in 1..Len(b.monthlyData)}

\* C18: permuting the record list leaves totalCount, the five status counts,
\* the four rates and the monthlyCounts mapping unchanged; only the order of
\* the monthlyCounts keys may differ.
C18_PermutationInvariant ==
    \A js \in Rearrangements(jobs) : SameUpToKeyOrder(ComputeMetrics(js, tz), metrics)

\* C18 witness: a list of three records in different statuses and two months
\* has been aggregated, and its reversal puts the months in the other order.
C18_Witness ==
    /\ ~metrics.raised
    /\ Len(jobs) = 3
    /\ jobs[1].status # jobs[2].status
    /\ jobs[1].dateApplied = jobs[2].dateApplied
    /\ Len(metrics.monthlyData) = 2
    /\ ComputeMetrics(Reverse(jobs), tz).monthlyData # metrics.monthlyData

\* C19: the aggregator's result depends on the record list only: computed
\* again on the identical list, in whatever environment, it is the same.
C19_DependsOnListOnly ==
    \A offset \in TimeZones : ComputeMetrics(jobs, offset) = metrics

\* C20: computing the metrics leaves the list it is handed unchanged: the
\* records handed in (the earlier list and one more record at its end) are
\* all there afterwards, in the same order, with the same fields.
C20_InputUnchanged ==
    [][/\ Len(jobs') = Len(jobs) + 1
       /\ SubSeq(jobs', 1, Len(jobs)) = jobs
       /\ jobs'[Len(jobs')].id = Len(jobs')
      ]_vars

\* C20 witness: metrics were computed from a list of several records, with
\* and without a date, and the list is as it was handed in.
C20_Witness ==
    /\ ~metrics.raised
    /\ Len(jobs) >= 2
    /\ jobs[1].dateApplied = DateEmpty
    /\ jobs[2].dateApplied = IsoDate(2024, 2, 1)
    /\ \A i \in 1..Len(jobs) : jobs[i].id = i

-----------------------------------------------------------------------------
(* Properties of what the Dashboard and the JobForm show. *)

\* C21: in the status pie chart every drawn slice (one per status with a
\* count above 0) is filled with the colour of its own status, whichever
\* statuses have count 0.
C21_SliceHasOwnColour ==
    (~metrics.raised /\ Len(jobs) > 0) =>
        LET sectors == PieSectors(metrics.statusData)
        IN /\ {sectors[i].name : i \in 1..Len(sectors)}
                 = {status \in JobStatus : InStatus(jobs, status) > 0}
           /\ \A i \in 1..Len(sectors) :
                 sectors[i].fill = GetStatusColor(sectors[i].name, ThemeMode)

\* C25: the shared loading flag is true from mount until the first snapshot
\* or subscription error is handled, becomes false at that point and never
\* becomes true again, whatever snapshots, errors and writes follow.
C25_LoadingFallsOnce ==
    /\ loading = TRUE
    /\ [][/\ loading = FALSE => loading' = FALSE
          /\ loading = TRUE => (loading' = TRUE <=> ~(Deliver \/ Fail))
         ]_vars

\* C25 witness: both callbacks' work is done and writes have followed: a
\* list of two records is shown, every write delivered, and loading is false.
C25_Witness ==
    /\ ~loading
    /\ mounted
    /\ now = MaxOps
    /\ queue = <<>>
    /\ Len(jobs) = 2
    /\ \A key \in DOMAIN store : store[key].exists

\* C26: the dashboard shows statistics and charts only when loading is false,
\* error is null and the list is non-empty; loading takes precedence over
\* error and error over the empty-state message, so while error is non-null
\* no metrics of a stale list are shown.
C26_ChartsOnlyWhenLoaded ==
    mounted =>
        /\ DashboardView = "charts" <=> (~loading /\ error = NoError /\ Len(jobs) > 0)
        /\ loading => DashboardView = "spinner"
        /\ (~loading /\ error # NoError) => DashboardView = "error"
        /\ (~loading /\ error = NoError /\ Len(jobs) = 0) => DashboardView = "empty"

\* C26 witness: an error is reported while the list still holds the records
\* of an earlier snapshot, now stale; the error is what is shown.
C26_Witness ==
    /\ mounted
    /\ ~loading
    /\ error # NoError
    /\ Len(jobs) > 0
    /\ lastSnap # Snapshot(store)
    /\ DashboardView = "error"

\* C22: whenever the Add Job dialog goes from closed to open its error
\* message is empty, however opening, closing, submitting and the settling
\* of an add in flight interleave.
C22_OpensWithoutError ==
    [][(~form.open /\ form'.open) => formError'.alert = ""]_vars

\* C23: while an add submitted from the form is in flight no second add can
\* be started from the form: at most one addJob call of the form is
\* outstanding.
C23_OneAddInFlight == Len(inflight) <= 1

\* C23 witness: an add is in flight, and the dialog, closed and opened again
\* meanwhile, holds another complete entry that cannot be submitted yet.
C23_Witness ==
    /\ Len(inflight) = 1
    /\ form.open
    /\ form.loading
    /\ Trim(form.company) # <<>>
    /\ Trim(form.role) # <<>>
    /\ now < MaxOps

\* The four fields of the form.
Fields(f) == <<f.company, f.role, f.dateApplied, f.status>>

\* C24: every valid submission ends with the form's loading flag false; after
\* a successful add the dialog is closed and the fields are at their
\* defaults, after a failed one the dialog is still open, with the entered
\* values and a failure message.
C24_SubmissionEnds ==
    [][/\ AddResolves =>
            (~form'.loading /\ ~form'.open /\ Fields(form') = Fields(FormDefaults))
       /\ AddRejects =>
            (~form'.loading /\ form'.open /\ Fields(form') = Fields(form)
                /\ formError'.alert = FailedMessage)
      ]_vars

====
